---- MODULE Spec2Model ----
(***************************************************************************)
(* Model of src/models/recommendation_pipeline.py: the ProductRecommendation*)
(* batch pipeline driven by main().  Tables (Spark DataFrames) are          *)
(* sequences of rows, a row is a function from column names to values.      *)
(* Wherever Spark leaves an order open (row_number over equal dates, equal  *)
(* frequencies in StringIndexer / orderBy / CountVectorizer, randomSplit,   *)
(* the fitted classifier) the model takes every outcome.                    *)
(***************************************************************************)
EXTENDS Integers, Sequences, FiniteSets, TLC

VARIABLES
    rankings_csv,        \* the rows of the product_rankings.csv that is read
    pc,                  \* next statement of main() / preprocess_data()
    error,               \* exception that ended the run, "none" while running
    product_rankings,    \* self.product_rankings
    product_keywords,    \* self.product_keywords
    joined_data,         \* self.joined_data
    top_keywords_list,   \* top_keywords_list of vectorize_keywords (line 81)
    vectorized_data,     \* self.vectorized_data
    data_train,          \* self.<category>_data_train, by category
    data_test,           \* self.<category>_data_test, by category
    models,              \* categories whose self.<category>_model is fitted
    prediction,          \* model.transform(test)["prediction"], by productId
    accuracy_test,       \* self.<category>_accuracy_test as <<correct, total>>
    predictions_result,  \* self.<category>_predictions_result, by category
    report,              \* the confusion rows printed by predict_and_evaluate
    sink                 \* rows written to predict_output.csv, or NotWritten

vars == <<rankings_csv, pc, error, product_rankings, product_keywords, joined_data,
          top_keywords_list, vectorized_data, data_train, data_test, models,
          prediction, accuracy_test, predictions_result, report, sink>>

----------------------------------------------------------------------------
(* Bounds of the explored inputs *)

\* number of products of the catalogue
NumProducts == 5
\* ranking observations added to the one observation every product has
MaxExtra == 1

----------------------------------------------------------------------------
(* Program constants *)

\* when(col("ranking") <= 150, 1)
RankThreshold == 150
\* .limit(100)
TopK == 100

Categories == <<"clothes_top", "pants", "shoes", "outers">>
CategorySet == {Categories[i] : i \in 1..Len(Categories)}

\* inputCols of the VectorAssembler in train_model
AssemblerInputCols ==
    <<"brand_ohe", "colors_ohe", "keyword_features", "price", "discountRate",
      "conversionRate", "trending", "totalSales", "views", "likes", "rating",
      "ratingCount">>

\* the columns predict_and_evaluate selects
ResultCols == {"productId", "category", "recommend", "predicted_recommend"}

----------------------------------------------------------------------------
(* Values.  A null of a string column, of the keywords text, of a number *)
NullStr == "<null>"
NullText == <<"<null>">>
NullNum == 0 - 1

\* Characters: a string is a sequence of one-character strings; "<ga>" stands
\* for a Hangul syllable.
LowerCase == {"a", "b"}
UpperCase == {"A", "B"}
Hangul == {"<ga>"}

Range(s) == {s[i] : i \in 1..Len(s)}
Cols(row) == DOMAIN row

RECURSIVE Flatten(_)
Flatten(ss) == IF ss = <<>> THEN <<>> ELSE Head(ss) \o Flatten(Tail(ss))

Occurrences(x, s) == Cardinality({i \in 1..Len(s) : s[i] = x})

\* df.withColumn(name, ...): the row with one more (or replaced) column
WithColumn(row, name, value) ==
    [c \in Cols(row) \cup {name} |-> IF c = name THEN value ELSE row[c]]

\* df.drop(name) / df.select(cols)
Select(row, cols) == [c \in Cols(row) \cap cols |-> row[c]]

MapRows(t, F(_)) == [i \in 1..Len(t) |-> F(t[i])]

\* Every order of the set S in which count never increases: orderBy(desc)
\* and the frequency orders of StringIndexer and CountVectorizer, ties open.
RECURSIVE OrdersByCountDesc(_, _)
OrdersByCountDesc(S, cnt) ==
    IF S = {} THEN {<<>>}
    ELSE LET top == {x \in S : \A y \in S : cnt[x] >= cnt[y]}
         IN  UNION {{<<x>> \o t : t \in OrdersByCountDesc(S \ {x}, cnt)} : x \in top}

IndexOf(x, s) == CHOOSE i \in 1..Len(s) : s[i] = x

----------------------------------------------------------------------------
(* Inputs *)

Products == 1..NumProducts
Dates == {1, 2, 3}
Rankings == {RankThreshold, RankThreshold + 1}
Brands == {"nike", "puma"}
Colors == {NullStr, "red"}
OtherCategory == "hats"

KeywordStrings ==
    { NullText,
      <<"a">>,
      <<"A">>,
      <<"a", ",", " ", "A">>,
      <<"b", "!">>,
      <<"1">>,
      <<"<ga>", ",", " ", "b">>,
      <<"a", ",", "b">> }

RankingRow(p, d, r) == [productId |-> p, date |-> d, ranking |-> r]

KeywordRow(p, brand, colour, kw, cat, rt) ==
    [productId |-> p, brandName |-> brand, colors |-> colour, keywords |-> kw,
     rating |-> rt, ratingCount |-> rt, price |-> 1, discountRate |-> 1,
     conversionRate |-> 1, trending |-> 1, totalSales |-> 1, views |-> 1,
     likes |-> 1, category |-> cat]

\* The reference corpus: every product observed once, on date 2, the four
\* categories taken in turn, labels alternating.
BaseRanking(p) == IF p % 2 = 1 THEN RankThreshold ELSE RankThreshold + 1
BaseRankings == [p \in Products |-> RankingRow(p, 2, BaseRanking(p))]
BaseBrand(p) == IF p <= 2 THEN "nike" ELSE "puma"
BaseColour(p) == IF p = 1 THEN NullStr ELSE "red"
BaseKeywords(p) ==
    CASE p = 1 -> <<"a", ",", " ", "A">>
      [] p = 3 -> NullText
      [] p = 4 -> <<"1">>
      [] OTHER -> <<"a">>
BaseCategory(p) == Categories[((p - 1) % Len(Categories)) + 1]
BaseRating(p) == IF p = 2 THEN NullNum ELSE 4

Catalogue(present, brand, colour, kw, cat) ==
    LET all == [p \in Products |->
                  KeywordRow(p, brand[p], colour[p], kw[p], cat[p], BaseRating(p))]
    IN  SelectSeq(all, LAMBDA row : row.productId \in present)

BaseBrands == [p \in Products |-> BaseBrand(p)]
BaseColours == [p \in Products |-> BaseColour(p)]
BaseKeywordsOf == [p \in Products |-> BaseKeywords(p)]
BaseCategories == [p \in Products |-> BaseCategory(p)]
BaseCatalogue == Catalogue(Products, BaseBrands, BaseColours, BaseKeywordsOf, BaseCategories)

\* A table has no order of its own (the window, not the file, orders the
\* rows), so of the extra observations one arrangement is taken.
RankingRows == {RankingRow(p, d, r) : p \in Products, d \in Dates, r \in Rankings}
RowKey(row) == (row.productId * 10 + row.date) * 1000 + row.ranking
ExtraRankings ==
    UNION {{s \in [1..n -> RankingRows] :
                \A i \in 1..(n - 1) : RowKey(s[i]) <= RowKey(s[i + 1])} : n \in 0..MaxExtra}

NotWritten == <<"not written">>
Unset == <<>>
NoTables == [c \in CategorySet |-> <<>>]

\* The state after ProductRecommendation.__init__: the two tables are read.
\* The corpora explored: the reference corpus with extra ranking
\* observations; with any brands; with any colours; with one product's
\* keywords or category changed; with the same keywords for every product;
\* with one product missing from the catalogue.
InitTables(rankings, catalogue) ==
    /\ rankings_csv = rankings
    /\ product_rankings = rankings
    /\ product_keywords = catalogue
    /\ pc = "dedup"
    /\ error = "none"
    /\ joined_data = Unset
    /\ top_keywords_list = Unset
    /\ vectorized_data = Unset
    /\ data_train = NoTables
    /\ data_test = NoTables
    /\ models = {}
    /\ prediction = Unset
    /\ accuracy_test = Unset
    /\ predictions_result = NoTables
    /\ report = Unset
    /\ sink = NotWritten

Init ==
    \/ \E extra \in ExtraRankings :
          InitTables(BaseRankings \o extra, BaseCatalogue)
    \/ \E brand \in [Products -> Brands] :
          InitTables(BaseRankings,
                     Catalogue(Products, brand, BaseColours, BaseKeywordsOf, BaseCategories))
    \/ \E colour \in [Products -> Colors] :
          InitTables(BaseRankings,
                     Catalogue(Products, BaseBrands, colour, BaseKeywordsOf, BaseCategories))
    \/ \E p \in Products, kw \in KeywordStrings :
          InitTables(BaseRankings,
                     Catalogue(Products, BaseBrands, BaseColours,
                               [BaseKeywordsOf EXCEPT ![p] = kw], BaseCategories))
    \/ \E p \in Products, cat \in CategorySet \cup {OtherCategory} :
          InitTables(BaseRankings,
                     Catalogue(Products, BaseBrands, BaseColours, BaseKeywordsOf,
                               [BaseCategories EXCEPT ![p] = cat]))
    \/ \E kw \in KeywordStrings :
          InitTables(BaseRankings,
                     Catalogue(Products, BaseBrands, BaseColours,
                               [p \in Products |-> kw], BaseCategories))
    \/ \E p \in Products :
          InitTables(BaseRankings,
                     Catalogue(Products \ {p}, BaseBrands, BaseColours, BaseKeywordsOf,
                               BaseCategories))

----------------------------------------------------------------------------
(* preprocess_data *)

\* Window.partitionBy("productId").orderBy(desc("date")), row_number() == 1:
\* the sets of row positions that can survive -- one position per productId,
\* holding a row of that product's maximal date.
IsLatest(t, i) ==
    \A j \in 1..Len(t) : t[j].productId = t[i].productId => t[j].date <= t[i].date

\* (a variant: rank() in place of row_number(), every latest row survives)
RankOne(t) == {{i \in 1..Len(t) : IsLatest(t, i)}}

RowNumberOne(t) ==
    {keep \in SUBSET {i \in 1..Len(t) : IsLatest(t, i)} :
        \A i \in 1..Len(t) :
            Cardinality({k \in keep : t[k].productId = t[i].productId}) = 1}

KeepRows(t, keep) ==
    LET F[i \in 0..Len(t)] ==
            IF i = 0 THEN <<>>
            ELSE IF i \in keep THEN Append(F[i - 1], t[i]) ELSE F[i - 1]
    IN  F[Len(t)]

Deduplicate ==
    /\ pc = "dedup"
    /\ \E keep \in RowNumberOne(product_rankings) :
          product_rankings' = KeepRows(product_rankings, keep)
    /\ pc' = "label"
    /\ UNCHANGED <<rankings_csv, error, product_keywords, joined_data, top_keywords_list,
                   vectorized_data, data_train, data_test, models, prediction,
                   accuracy_test, predictions_result, report, sink>>

\* (a variant: the comparison taken strict)
RecommendBelow(ranking) == IF ranking < RankThreshold THEN 1 ELSE 0

\* when(col("ranking") <= 150, 1).otherwise(0)
Recommend(ranking) == IF ranking <= RankThreshold THEN 1 ELSE 0

AssignLabel ==
    /\ pc = "label"
    /\ product_rankings' =
          MapRows(product_rankings,
                  LAMBDA row : WithColumn(row, "recommend", Recommend(row.ranking)))
    /\ pc' = "drop"
    /\ UNCHANGED <<rankings_csv, error, product_keywords, joined_data, top_keywords_list,
                   vectorized_data, data_train, data_test, models, prediction,
                   accuracy_test, predictions_result, report, sink>>

\* (a variant: drop() of a name that is no column, which Spark ignores)
DropNothing(row, name) == row

\* self.product_rankings.drop("ranking")
DropColumn(row, name) == Select(row, Cols(row) \ {name})

DropRanking ==
    /\ pc = "drop"
    /\ product_rankings' =
          MapRows(product_rankings, LAMBDA row : DropColumn(row, "ranking"))
    /\ pc' = "join"
    /\ UNCHANGED <<rankings_csv, error, product_keywords, joined_data, top_keywords_list,
                   vectorized_data, data_train, data_test, models, prediction,
                   accuracy_test, predictions_result, report, sink>>

\* left.join(right, on="productId", how="inner")
MergeRows(l, r) == [c \in Cols(l) \cup Cols(r) |-> IF c \in Cols(l) THEN l[c] ELSE r[c]]

InnerJoin(left, right) ==
    Flatten([i \in 1..Len(left) |->
        LET matches == SelectSeq(right, LAMBDA r : r.productId = left[i].productId)
        IN  [j \in 1..Len(matches) |-> MergeRows(left[i], matches[j])]])

Join ==
    /\ pc = "join"
    /\ joined_data' = InnerJoin(product_rankings, product_keywords)
    /\ pc' = "fillna"
    /\ UNCHANGED <<rankings_csv, error, product_rankings, product_keywords, top_keywords_list,
                   vectorized_data, data_train, data_test, models, prediction,
                   accuracy_test, predictions_result, report, sink>>

\* fillna({"colors": "unknown", "keywords": "", "rating": 0, "ratingCount": 0})
FillRow(row) ==
    [c \in Cols(row) |->
        CASE c = "colors" /\ row[c] = NullStr -> "unknown"
          [] c = "keywords" /\ row[c] = NullText -> <<>>
          [] c \in {"rating", "ratingCount"} /\ row[c] = NullNum -> 0
          [] OTHER -> row[c]]

FillNa ==
    /\ pc = "fillna"
    /\ joined_data' = MapRows(joined_data, FillRow)
    /\ pc' = "encode"
    /\ UNCHANGED <<rankings_csv, error, product_rankings, product_keywords, top_keywords_list,
                   vectorized_data, data_train, data_test, models, prediction,
                   accuracy_test, predictions_result, report, sink>>

\* StringIndexer(inputCol=col).fit: the labels by descending frequency
StringIndexerFit(t, col) ==
    LET values == {t[i][col] : i \in 1..Len(t)}
        cnt == [v \in values |-> Cardinality({i \in 1..Len(t) : t[i][col] = v})]
    IN  OrdersByCountDesc(values, cnt)

\* StringIndexerModel.transform: the zero-based position of the label
StringIndex(labels, v) == IndexOf(v, labels) - 1

\* (a variant: dropLast=False, one slot per category)
OneHotKeepLast(index, numCategories) ==
    [i \in 1..numCategories |-> IF i = index + 1 THEN 1 ELSE 0]

\* OneHotEncoder(inputCol, outputCol) with its default dropLast=True:
\* numCategories - 1 slots, the last category is the all-zero vector
OneHot(index, numCategories) ==
    [i \in 1..(numCategories - 1) |-> IF i = index + 1 THEN 1 ELSE 0]

EncodeRow(row, brandLabels, colorLabels) ==
    LET bi == StringIndex(brandLabels, row.brandName)
        ci == StringIndex(colorLabels, row.colors)
        r1 == WithColumn(row, "brand_index", bi)
        r2 == WithColumn(r1, "colors_index", ci)
        r3 == WithColumn(r2, "brand_ohe", OneHot(bi, Len(brandLabels)))
    IN  WithColumn(r3, "colors_ohe", OneHot(ci, Len(colorLabels)))

EncodeCategoricals ==
    /\ pc = "encode"
    /\ \E brandLabels \in StringIndexerFit(joined_data, "brandName"),
          colorLabels \in StringIndexerFit(joined_data, "colors") :
          joined_data' =
              MapRows(joined_data, LAMBDA row : EncodeRow(row, brandLabels, colorLabels))
    /\ pc' = "split"
    /\ UNCHANGED <<rankings_csv, error, product_rankings, product_keywords, top_keywords_list,
                   vectorized_data, data_train, data_test, models, prediction,
                   accuracy_test, predictions_result, report, sink>>

\* F.split(F.col("keywords"), ", "): the pieces between the separators, empty
\* pieces kept, so the empty string gives the one piece ""
RECURSIVE SplitFrom(_, _)
SplitFrom(s, piece) ==
    IF s = <<>> THEN <<piece>>
    ELSE IF Len(s) >= 2 /\ s[1] = "," /\ s[2] = " "
         THEN <<piece>> \o SplitFrom(SubSeq(s, 3, Len(s)), <<>>)
         ELSE SplitFrom(Tail(s), Append(piece, Head(s)))

Split(s) == SplitFrom(s, <<>>)

SplitKeywords ==
    /\ pc = "split"
    /\ joined_data' =
          MapRows(joined_data,
                  LAMBDA row : WithColumn(row, "keywords", Split(row.keywords)))
    /\ pc' = "vectorize"
    /\ UNCHANGED <<rankings_csv, error, product_rankings, product_keywords, top_keywords_list,
                   vectorized_data, data_train, data_test, models, prediction,
                   accuracy_test, predictions_result, report, sink>>

----------------------------------------------------------------------------
(* vectorize_keywords *)

\* lower(col("keyword"))
Lower(ch) ==
    CASE ch = "A" -> "a"
      [] ch = "B" -> "b"
      [] OTHER -> ch

\* regexp_replace(..., "[^가-힣a-zA-Z]", ""): the characters that stay
IsKept(ch) == ch \in Hangul \cup LowerCase \cup UpperCase

CleanKeyword(keyword) ==
    SelectSeq([i \in 1..Len(keyword) |-> Lower(keyword[i])], IsKept)

\* explode(col("keywords")): one row per element of every keywords array
Explode(t) == Flatten([i \in 1..Len(t) |-> t[i].keywords])

KeywordsCleaned(t) == LET e == Explode(t) IN [i \in 1..Len(e) |-> CleanKeyword(e[i])]

Take(s, n) == SubSeq(s, 1, IF Len(s) < n THEN Len(s) ELSE n)

\* groupBy("keyword").count().orderBy(col("count").desc()).limit(100)
TopKeywords(t) ==
    LET cleaned == KeywordsCleaned(t)
        cnt == [k \in Range(cleaned) |-> Occurrences(k, cleaned)]
    IN  {Take(o, TopK) : o \in OrdersByCountDesc(Range(cleaned), cnt)}

\* filter(keywords, x -> array_contains(array(<top keywords>), x))
FilterKeywords(keywords, top) == SelectSeq(keywords, LAMBDA x : x \in Range(top))

\* CountVectorizer(inputCol="filtered_keywords").fit: the terms by descending
\* number of occurrences (vocabSize 2^18 and minDF 1 exclude nothing here)
CountVectorizerFit(t) ==
    LET terms == Flatten([i \in 1..Len(t) |-> t[i].filtered_keywords])
        cnt == [k \in Range(terms) |-> Occurrences(k, terms)]
    IN  OrdersByCountDesc(Range(terms), cnt)

\* CountVectorizerModel.transform
CountVector(vocabulary, tokens) ==
    [i \in 1..Len(vocabulary) |-> Occurrences(vocabulary[i], tokens)]

VectorizeKeywords ==
    /\ pc = "vectorize"
    /\ \E top \in TopKeywords(joined_data) :
        LET filtered == MapRows(joined_data,
                LAMBDA row : WithColumn(row, "filtered_keywords",
                                        FilterKeywords(row.keywords, top)))
        IN  /\ top_keywords_list' = top
            /\ \E vocabulary \in CountVectorizerFit(filtered) :
                IF vocabulary = <<>>
                THEN \* CountVectorizer.fit requires a vocabulary of size > 0
                     /\ error' = "IllegalArgumentException"
                     /\ pc' = "aborted"
                     /\ UNCHANGED vectorized_data
                ELSE /\ vectorized_data' =
                            MapRows(filtered,
                                LAMBDA row : WithColumn(row, "keyword_features",
                                    CountVector(vocabulary, row.filtered_keywords)))
                     /\ pc' = "train"
                     /\ UNCHANGED error
    /\ UNCHANGED <<rankings_csv, product_rankings, product_keywords, joined_data, data_train,
                   data_test, models, prediction, accuracy_test,
                   predictions_result, report, sink>>

----------------------------------------------------------------------------
(* train_models *)

\* self.vectorized_data.filter(col("category") == category)
FilterCategory(t, category) == SelectSeq(t, LAMBDA row : row.category = category)

\* data.randomSplit([0.7, 0.3], seed=42): every row goes to one of the two
\* parts; inTrain is the set of productIds the sampler sends to the first
RandomSplit(t, inTrain) ==
    [train |-> SelectSeq(t, LAMBDA row : row.productId \in inTrain),
     test  |-> SelectSeq(t, LAMBDA row : row.productId \notin inTrain)]

\* train_model(data): pipeline.fit raises on a training set without rows
\* (the assembler and the forest both need a first row)
CanFit(data) == Len(data) > 0

\* the categories fitted by the calls of lines 119-122 up to the first that raises
Fitted(train) ==
    {Categories[i] : i \in {k \in 1..Len(Categories) :
                              \A j \in 1..k : CanFit(train[Categories[j]])}}

TrainModels ==
    /\ pc = "train"
    /\ \E inTrain \in SUBSET {vectorized_data[i].productId : i \in 1..Len(vectorized_data)} :
        LET parts == [c \in CategorySet |->
                        RandomSplit(FilterCategory(vectorized_data, c), inTrain)]
            train == [c \in CategorySet |-> parts[c].train]
        IN  /\ data_train' = train
            /\ data_test' = [c \in CategorySet |-> parts[c].test]
            /\ models' = Fitted(train)
            /\ IF Fitted(train) = CategorySet
               THEN pc' = "evaluate" /\ UNCHANGED error
               ELSE pc' = "aborted" /\ error' = "fit on empty data"
    /\ UNCHANGED <<rankings_csv, product_rankings, product_keywords, joined_data,
                   top_keywords_list, vectorized_data, prediction, accuracy_test,
                   predictions_result, report, sink>>

----------------------------------------------------------------------------
(* evaluate_models *)

\* model.transform(test_data): the fitted forest is opaque, it labels every
\* row 0 or 1, and labels a row the same way whenever it is asked again
Predictions(test) ==
    [UNION {{test[c][i].productId : i \in 1..Len(test[c])} : c \in CategorySet} -> {0, 1}]

\* MulticlassClassificationEvaluator(metricName="accuracy"): correct / total.
\* The train-side numbers and the weighted precision and recall are printed
\* only, they are left out.
Accuracy(test, pred) ==
    <<Cardinality({i \in 1..Len(test) : pred[test[i].productId] = test[i].recommend}),
      Len(test)>>

EvaluateModels ==
    /\ pc = "evaluate"
    /\ \E pred \in Predictions(data_test) :
        /\ prediction' = pred
        /\ accuracy_test' = [c \in CategorySet |-> Accuracy(data_test[c], pred)]
    /\ pc' = "predict"
    /\ UNCHANGED <<rankings_csv, error, product_rankings, product_keywords, joined_data,
                   top_keywords_list, vectorized_data, data_train, data_test,
                   models, predictions_result, report, sink>>

----------------------------------------------------------------------------
(* predict_and_evaluate *)

\* predict_recommendation(test_data, model) and the select of lines 173-176
PredictRecommendation(test, pred) ==
    MapRows(test, LAMBDA row :
        Select(WithColumn(row, "predicted_recommend", pred[row.productId]), ResultCols))

\* a.union(b).union(c).union(d) over the four categories in the code's order
UnionAll(results) == Flatten([i \in 1..Len(Categories) |-> results[Categories[i]]])

\* (a variant: the condition on recommend forgotten)
CountWherePredicted(t, p, r) ==
    Cardinality({i \in 1..Len(t) : t[i].predicted_recommend = p})

\* df.filter((predicted_recommend == p) & (recommend == r)).count()
CountWhere(t, p, r) ==
    Cardinality({i \in 1..Len(t) : t[i].predicted_recommend = p /\ t[i].recommend = r})

\* round(num / den, 2) in hundredths; a half (den a multiple of 8) goes to even
Round2(num, den) ==
    LET q == (100 * num) \div den
        rest == (100 * num) % den
    IN  IF 2 * rest > den \/ (2 * rest = den /\ q % 2 = 1) THEN q + 1 ELSE q

\* round(tp / (tp + fn), 2) if (tp + fn) > 0 else 0.0
Ratio(num, den) == IF den > 0 THEN Round2(num, den) ELSE 0

ConfusionRow(t) ==
    LET tp == CountWhere(t, 1, 1)
        fn == CountWhere(t, 0, 1)
        fp == CountWhere(t, 1, 0)
        tn == CountWhere(t, 0, 0)
    IN  [tp |-> tp, fn |-> fn, fp |-> fp, tn |-> tn,
         recall |-> Ratio(tp, tp + fn), precision |-> Ratio(tp, tp + fp)]

PredictAndEvaluate ==
    /\ pc = "predict"
    /\ LET results == [c \in CategorySet |-> PredictRecommendation(data_test[c], prediction)]
           all_predictions_result == UnionAll(results)
       IN  /\ predictions_result' = results
           /\ report' = [k \in CategorySet \cup {"overall"} |->
                            IF k = "overall"
                            THEN ConfusionRow(all_predictions_result)
                            ELSE ConfusionRow(FilterCategory(all_predictions_result, k))]
    /\ pc' = "save"
    /\ UNCHANGED <<rankings_csv, error, product_rankings, product_keywords, joined_data,
                   top_keywords_list, vectorized_data, data_train, data_test,
                   models, prediction, accuracy_test, sink>>

----------------------------------------------------------------------------
(* save_results *)

\* The attributes of class ProductRecommendation: the defs indented under it.
\* def save_results(self) starts in column 0, it is a function of the module.
Methods ==
    {"__init__", "preprocess_data", "vectorize_keywords", "train_models",
     "evaluate_models", "predict_and_evaluate"}

\* what the module-level save_results would write for an object it is given
FinalPredictionsResult(results) == UnionAll(results)

\* recommendation.save_results(): the attribute lookup on the object
SaveResults ==
    /\ pc = "save"
    /\ IF "save_results" \in Methods
       THEN /\ sink' = FinalPredictionsResult(predictions_result)
            /\ pc' = "done"
            /\ UNCHANGED error
       ELSE /\ error' = "AttributeError"
            /\ pc' = "aborted"
            /\ UNCHANGED sink
    /\ UNCHANGED <<rankings_csv, product_rankings, product_keywords, joined_data,
                   top_keywords_list, vectorized_data, data_train, data_test,
                   models, prediction, accuracy_test, predictions_result, report>>

Next ==
    \/ Deduplicate
    \/ AssignLabel
    \/ DropRanking
    \/ Join
    \/ FillNa
    \/ EncodeCategoricals
    \/ SplitKeywords
    \/ VectorizeKeywords
    \/ TrainModels
    \/ EvaluateModels
    \/ PredictAndEvaluate
    \/ SaveResults

Spec == Init /\ [][Next]_vars

----------------------------------------------------------------------------
(* Positions of the run *)

Deduplicated == pc # "dedup"
Dropped == pc \notin {"dedup", "label", "drop"}
Encoded == pc \notin {"dedup", "label", "drop", "join", "fillna", "encode"}
VocabularyBuilt == Encoded /\ pc \notin {"split", "vectorize"}
Vectorized == VocabularyBuilt /\ error # "IllegalArgumentException"
Reported == pc \in {"save", "done"} \/ error = "AttributeError"
Ended == pc \in {"done", "aborted"}

TableCols(t) == UNION {Cols(t[i]) : i \in 1..Len(t)}

RECURSIVE SumSeq(_)
SumSeq(s) == IF s = <<>> THEN 0 ELSE Head(s) + SumSeq(Tail(s))

ProductIds(t) == {t[i].productId : i \in 1..Len(t)}
RowsOf(t, p) == {i \in 1..Len(t) : t[i].productId = p}
TestRecords == SumSeq([i \in 1..Len(Categories) |-> Len(data_test[Categories[i]])])

----------------------------------------------------------------------------
(* C1: when every stage up to predict_and_evaluate has run, the run ends    *)
(* with save_results executed: predict_output.csv holds one row of the four *)
(* result columns per test-set record of the four categories.               *)
C1_RunEndsWithOutput ==
    (Ended /\ Reported) =>
        /\ pc = "done"
        /\ sink = FinalPredictionsResult(predictions_result)
        /\ Len(sink) = TestRecords
        /\ \A i \in 1..Len(sink) : Cols(sink[i]) = ResultCols

----------------------------------------------------------------------------
(* C2: after the deduplication step every productId of the input occurs in  *)
(* exactly one surviving row, and that row carries the maximal date of the   *)
(* input rows of that productId.                                            *)
C2_OneLatestRowPerProduct ==
    Deduplicated =>
        /\ ProductIds(product_rankings) = ProductIds(rankings_csv)
        /\ \A p \in ProductIds(rankings_csv) :
              /\ Cardinality(RowsOf(product_rankings, p)) = 1
              /\ \A i \in RowsOf(product_rankings, p), j \in RowsOf(rankings_csv, p) :
                    /\ product_rankings[i].date >= rankings_csv[j].date
                    /\ \E k \in RowsOf(rankings_csv, p) :
                          rankings_csv[k].date = product_rankings[i].date

\* a product observed on several dates, and one observed twice on its last date
C2_Witness ==
    /\ pc = "label"
    /\ \E p \in ProductIds(rankings_csv) :
          \E i, j \in RowsOf(rankings_csv, p) : rankings_csv[i].date < rankings_csv[j].date
    /\ Len(product_rankings) < Len(rankings_csv)

----------------------------------------------------------------------------
(* C3: the label of a deduplicated row is 1 exactly when its ranking is at  *)
(* most 150 and 0 otherwise (150 gives 1, 151 gives 0); rows of equal        *)
(* ranking get equal labels, and the label stays the one of a latest input  *)
(* row of the product once the ranking is dropped.                          *)
C3_LabelIffTop150 ==
    /\ pc = "drop" =>
          \A i \in 1..Len(product_rankings) :
              LET row == product_rankings[i]
              IN  /\ row.ranking <= 150 => row.recommend = 1
                  /\ row.ranking >= 151 => row.recommend = 0
    /\ Dropped =>
          \A i \in 1..Len(product_rankings) :
              LET row == product_rankings[i]
              IN  \E k \in RowsOf(rankings_csv, row.productId) :
                      /\ rankings_csv[k].date = row.date
                      /\ (row.recommend = 1 /\ rankings_csv[k].ranking <= 150)
                            \/ (row.recommend = 0 /\ rankings_csv[k].ranking > 150)

\* both sides of the boundary are labelled in one run
C3_Witness ==
    /\ pc = "drop"
    /\ \E i, j \in 1..Len(product_rankings) :
          /\ product_rankings[i].ranking = 150 /\ product_rankings[i].recommend = 1
          /\ product_rankings[j].ranking = 151 /\ product_rankings[j].recommend = 0

----------------------------------------------------------------------------
AllTables ==
    <<product_rankings, joined_data, vectorized_data>>
        \o [i \in 1..Len(Categories) |-> data_train[Categories[i]]]
        \o [i \in 1..Len(Categories) |-> data_test[Categories[i]]]

(* C4: once the label is assigned and the ranking dropped, no table of the  *)
(* run has a ranking column, and the columns the assembler of train_model   *)
(* reads are columns of the training data, none of them ranking.            *)
C4_RankingNeverAFeature ==
    Dropped =>
        /\ \A k \in 1..Len(AllTables) : "ranking" \notin TableCols(AllTables[k])
        /\ "ranking" \notin Range(AssemblerInputCols)
        /\ \A c \in CategorySet : \A i \in 1..Len(data_train[c]) :
              Range(AssemblerInputCols) \subseteq Cols(data_train[c][i])

\* the label is in the training rows the assembler reads, the ranking is not
C4_Witness ==
    /\ pc = "evaluate"
    /\ \E c \in CategorySet : \E i \in 1..Len(data_train[c]) :
          /\ "recommend" \in Cols(data_train[c][i])
          /\ data_train[c][i].recommend = 1

----------------------------------------------------------------------------
Total(row) == row.tp + row.fn + row.fp + row.tn
SumOver(field) == SumSeq([i \in 1..Len(Categories) |-> report[Categories[i]][field]])
NearestHundredth(value, num, den) ==
    IF den = 0 THEN value = 0
    ELSE /\ 2 * (100 * num - value * den) <= den
         /\ 2 * (value * den - 100 * num) <= den

(* C5: in every printed category row tp + fn + fp + tn is the size of that  *)
(* category's test subset; every count of the overall row is the sum of the *)
(* four category counts, so its total is the number of all test records;    *)
(* recall (precision) is 0.0 when tp + fn (tp + fp) is 0 and otherwise the  *)
(* ratio to the nearest hundredth.                                          *)
C5_ConfusionCountsAddUp ==
    Reported =>
        /\ \A c \in CategorySet : Total(report[c]) = Len(data_test[c])
        /\ Total(report["overall"]) = TestRecords
        /\ \A field \in {"tp", "fn", "fp", "tn"} : report["overall"][field] = SumOver(field)
        /\ \A k \in DOMAIN report :
              /\ NearestHundredth(report[k].recall, report[k].tp, report[k].tp + report[k].fn)
              /\ NearestHundredth(report[k].precision, report[k].tp, report[k].tp + report[k].fp)

\* a category row with a true positive beside a category row that falls back
C5_Witness ==
    /\ Reported
    /\ \E c, d \in CategorySet :
          /\ report[c].tp = 1 /\ report[c].recall = 100
          /\ Total(report[d]) = 0 /\ report[d].recall = 0 /\ report[d].precision = 0
    /\ report["overall"].tp = 1

----------------------------------------------------------------------------
EmptyCategories == {c \in CategorySet : FilterCategory(joined_data, c) = <<>>}

(* C6: when one of the four categories has no joined record the run does    *)
(* not abort, and that category gets no prediction record.                  *)
C6_EmptyCategoryDoesNotAbort ==
    (Encoded /\ EmptyCategories # {}) =>
        /\ pc # "aborted"
        /\ \A c \in EmptyCategories : predictions_result[c] = <<>>

----------------------------------------------------------------------------
(* C7: the vocabulary has at most 100 entries, each a non-empty string of   *)
(* lowercase ASCII letters and Hangul syllables.                            *)
C7_VocabularyEntriesNormalized ==
    VocabularyBuilt =>
        /\ Len(top_keywords_list) <= 100
        /\ \A i \in 1..Len(top_keywords_list) :
              /\ top_keywords_list[i] # <<>>
              /\ Range(top_keywords_list[i]) \subseteq LowerCase \cup Hangul

----------------------------------------------------------------------------
NormalizedTokens(row) == [i \in 1..Len(row.keywords) |-> CleanKeyword(row.keywords[i])]
InVocabulary(tokens) == SelectSeq(tokens, LAMBDA x : x \in Range(top_keywords_list))

(* C8: filtered_keywords of a record holds its normalized tokens that are   *)
(* in the vocabulary, each as often as it occurs.                           *)
C8_FilterKeepsNormalizedTokens ==
    Vectorized =>
        \A i \in 1..Len(vectorized_data) :
            LET row == vectorized_data[i]
            IN  \A k \in Range(top_keywords_list) :
                    Occurrences(k, row.filtered_keywords)
                        = Occurrences(k, InVocabulary(NormalizedTokens(row)))

----------------------------------------------------------------------------
(* C9: every keyword count vector has one slot per vocabulary entry, and    *)
(* slot i counts the record's tokens equal to the entry of rank i.          *)
C9_CountVectorOverVocabulary ==
    Vectorized =>
        \A i \in 1..Len(vectorized_data) :
            LET row == vectorized_data[i]
            IN  /\ Len(row.keyword_features) = Len(top_keywords_list)
                /\ \A k \in 1..Len(top_keywords_list) :
                      row.keyword_features[k]
                          = Occurrences(top_keywords_list[k], NormalizedTokens(row))

----------------------------------------------------------------------------
(* The one-hot vectors of brandName and colors *)
Distinct(col) == {joined_data[i][col] : i \in 1..Len(joined_data)}
Frequency(col, v) == Cardinality({i \in 1..Len(joined_data) : joined_data[i][col] = v})
Ones(vec) == {i \in 1..Len(vec) : vec[i] = 1}

\* the index column is a frequency rank: a bijection of the observed values
\* onto 0..n-1 in which a more frequent value never comes later
FrequencyRanked(col, index) ==
    LET n == Cardinality(Distinct(col))
        freq == [v \in Distinct(col) |-> Frequency(col, v)]
    IN  \A i, j \in 1..Len(joined_data) :
            LET a == joined_data[i]
                b == joined_data[j]
            IN  /\ a[index] \in 0..(n - 1)
                /\ (a[col] = b[col]) <=> (a[index] = b[index])
                /\ a[index] < b[index] => freq[a[col]] >= freq[b[col]]

\* C10 as claimed: the vectors have as many slots as there are observed
\* values, and every observed value has exactly one 1, at its frequency rank
C10_OneHotFullLength ==
    Encoded =>
        \A i \in 1..Len(joined_data) :
            LET row == joined_data[i]
            IN  /\ Len(row.brand_ohe) = Cardinality(Distinct("brandName"))
                /\ Ones(row.brand_ohe) = {row.brand_index + 1}
                /\ Len(row.colors_ohe) = Cardinality(Distinct("colors"))
                /\ Ones(row.colors_ohe) = {row.colors_index + 1}

OneHotDropLast(col, index, ohe) ==
    /\ FrequencyRanked(col, index)
    /\ LET n == Cardinality(Distinct(col))
       IN  \A i \in 1..Len(joined_data) :
          LET row == joined_data[i]
          IN  /\ Len(row[ohe]) = n - 1
              /\ Range(row[ohe]) \subseteq {0, 1}
              /\ row[index] < n - 1 => Ones(row[ohe]) = {row[index] + 1}
              /\ row[index] = n - 1 => Ones(row[ohe]) = {}

\* C10 as amended: the vectors have one slot less than there are observed
\* values; a value has exactly one 1 at its frequency rank, but for the value
\* of the last rank, which is encoded as all zeros
C10_OneHotDropsLast ==
    Encoded =>
        /\ OneHotDropLast("brandName", "brand_index", "brand_ohe")
        /\ OneHotDropLast("colors", "colors_index", "colors_ohe")

\* two brands of different frequency: the rarer one is encoded as all zeros
C10_Witness ==
    /\ pc = "split"
    /\ \E i, j \in 1..Len(joined_data) :
          /\ Frequency("brandName", joined_data[i].brandName)
                > Frequency("brandName", joined_data[j].brandName)
          /\ joined_data[i].brand_ohe = <<1>>
          /\ joined_data[j].brand_ohe = <<0>>

====
